---- MODULE Spec2Model ----
(***************************************************************************)
(* One HTTP/1.1 connection of sanic: the engine (sanic/http.py, class      *)
(* Http) driven by the connection task of the protocol driver              *)
(* (sanic/server.py, class HttpProtocol).                                  *)
(*                                                                         *)
(* The engine is a coroutine.  pc is its position: the places where it is  *)
(* suspended (SuspendPoints) are the only places where the callbacks of    *)
(* the event loop (data_received, pause_writing, check_timeouts,           *)
(* connection_lost, ...) can run and where a cancellation can be thrown    *)
(* into it.  The other values of pc cut one uninterrupted run of the       *)
(* coroutine into steps; no callback runs there.                           *)
(*                                                                         *)
(* The request handler, app.handle_exception and the peer are outside the  *)
(* repository: the handler is any sequence of respond / send / read calls  *)
(* that may catch what they raise, the peer sends any request.             *)
(***************************************************************************)
EXTENDS Integers, Sequences, FiniteSets, TLC

\* ------------------------------------------------------------------ bounds
\* A behaviour has one of these scopes (variable scope), which say what the
\* peer and the handler try:
\*   "connection"  the whole life of a connection: up to MaxRequests requests,
\*                 every callback of the driver, a handler with two responses;
\*   "response"    one exchange on a quiet connection, requests without a
\*                 body, a handler that tries every response and every way
\*                 of sending it;
\*   "request"     one exchange on a quiet connection, every request, a
\*                 handler with three responses;
\*   "timing"      a connection with a clock: the watchdog runs when it is
\*                 due and compares durations with the timeouts, of which
\*                 keep_alive is the shortest and response the longest;
\*   "status"      as "response", with the responses 304 Not Modified and 412
\*                 Precondition Failed;
\*   "shutdown"    the worker stops: serve() leaves run_forever and shuts the
\*                 connection down, with every graceful timeout of up to
\*                 MaxGraceful tenths of a second;
\*   "buffer"      the receive buffer byte by byte: the peer sends one of a
\*                 few requests, then perhaps a second one, split in every
\*                 way into the blocks that data_received appends.
MaxRequests == 2   \* requests the peer sends (scope "connection")
MaxSends == 2      \* non-empty data blocks a handler passes to send() in one exchange
MaxData == 2       \* longest data block a handler passes to send()
LongData == 17     \* a longer data block, whose chunk size has two hex digits
MaxLen == 2        \* largest content-length a response declares
MaxBody == 1       \* largest request content-length / chunk size
FewSends == 1      \* MaxSends of the scopes "connection" and "request"
MaxTimeout == 3    \* keep_alive_timeout is 1..MaxTimeout tenths of a second (scope "timing")
request_max_size == 24   \* protocol.request_max_size (scope "buffer")
MaxTime == 14      \* ticks of the clock (scope "timing")
MaxGraceful == 10  \* GRACEFUL_SHUTDOWN_TIMEOUT is 0..MaxGraceful tenths of a second (scope "shutdown")

\* ------------------------------------------------------- bytes on the wire
\* A byte string is a sequence of one-character strings.  The status line
\* and header block of a response are one token, HEAD, whose content is kept
\* in hdr; the interim response HTTP_CONTINUE is the token CONT.
CR == "\r"
LF == "\n"
HEAD == "HEAD"
CONT == "CONT"
HTTP_CONTINUE == <<CONT>>

Alphabet == <<"a", "b", "c">>
\* the n-byte data block "abcab..."
Data(n) == [i \in 1..n |-> Alphabet[((i - 1) % 3) + 1]]

HexDigit(d) == <<"0","1","2","3","4","5","6","7","8","9","a","b","c","d","e","f">>[d + 1]
\* b"%x" % n
RECURSIVE Hex(_)
Hex(n) == IF n < 16 THEN <<HexDigit(n)>> ELSE Hex(n \div 16) \o <<HexDigit(n % 16)>>

\* ------------------------------------------------------------------ stages
IDLE == "IDLE"
REQUEST == "REQUEST"
HANDLER == "HANDLER"
RESPONSE == "RESPONSE"
FAILED == "FAILED"
Stage == {IDLE, REQUEST, HANDLER, RESPONSE, FAILED}

Min(a, b) == IF a < b THEN a ELSE b
Max(a, b) == IF a > b THEN a ELSE b

\* max(0.1, interval) of check_timeouts, in ticks of 0.05 s
MinInterval == 2
\* HttpProtocol has no attribute _total_request_size
NoSize == -1

\* ------------------------------------------------------------- responses
NoCL == -1                       \* no content-length header
NoResponse == [status |-> 0, cl |-> NoCL, body |-> <<>>]
NoHead == [res |-> NoResponse, cl |-> NoCL, te |-> FALSE, conn |-> "none"]
NoRequest == [expect |-> "none", body |-> FALSE]

\* ------------------------------------------------------------- variables
VARIABLES
    scope,           \* the scope of the behaviour, see above
    \* class Http
    stage, keep_alive, head_only, expecting_continue,
    idle_from,       \* when the stage became IDLE, on the clock
    request_chunked, request_bytes_left,
    response, response_func, response_bytes_left, exception,
    \* class HttpProtocol
    transport,       \* self.transport: "set" or "None"
    closing,         \* transport.is_closing()
    can_write,       \* self._can_write
    task,            \* self._task: "running" or "None"
    cancel_pending,  \* self._task.cancel() was called, CancelledError not thrown yet
    watchdog,        \* check_timeouts callbacks scheduled with call_later
    lost,            \* connection_lost has run
    requests_count,  \* self.state["requests_count"]
    now,             \* current_time(), in ticks of 0.05 s
    time,            \* self._time
    due,             \* when the scheduled check_timeouts callback runs
    keep_alive_timeout, request_timeout, response_timeout,   \* in units of 0.1 s
    recv_buffer,     \* self.recv_buffer
    inbound,         \* the bytes the peer has still to send
    pos,             \* the local pos of http1_request_header
    total_request_size,  \* self._total_request_size
    first,           \* the bytes of the first request of the peer
    delivered,       \* concatenation of the data that read() returned for this request
    \* serve(), the worker of the connection
    serve,           \* where serve() stands, by the call it is in or about to make
    stopped,         \* signal.stopped
    graceful,        \* app.config.GRACEFUL_SHUTDOWN_TIMEOUT, in tenths of a second
    start_shutdown,  \* the local start_shutdown of serve(), a double
    polls,           \* asyncio.sleep(0.1) calls of the wait loop that returned
    websocket,       \* the connection has a websocket attribute that is set
    coros,           \* conn.websocket.close_connection(): "none", "pending", "done"
    \* the coroutine
    pc, ret, pending, reader, exc,
    \* observation of the current exchange
    wire,            \* what transport.write received, in order
    hdr,             \* the header block behind the HEAD token of wire
    request,         \* what the request of this exchange declared: Expect, a body
    read_first,      \* the request has an Expect header and read() was called before
                     \* the response was started
    received,        \* a byte of the request that is waited for has arrived
    passed,          \* the last response passed to respond() in stage HANDLER
    passed_valid,    \* the last of them with a valid status
    sent,            \* concatenation of the data passed to the send() calls that returned
    nsend,           \* non-empty data blocks passed to send()
    nerr,            \* error responses sent by error_response in this exchange
    err_used         \* the exception last given to error_response

http_vars == <<stage, idle_from, keep_alive, head_only, expecting_continue, request_chunked,
               request_bytes_left, response, response_func, response_bytes_left, exception>>
serve_vars == <<serve, stopped, graceful, start_shutdown, polls, websocket, coros>>
clock_vars == <<now, due, keep_alive_timeout, request_timeout, response_timeout>>
buf_vars == <<recv_buffer, inbound, pos, total_request_size, first, delivered>>
\* the protocol but for _time
quiet_vars == <<scope, serve_vars, clock_vars, buf_vars, transport, closing, can_write, task,
                cancel_pending, watchdog, lost, requests_count>>
proto_vars == <<time, quiet_vars>>
co_vars == <<pc, ret, pending, reader, exc>>
obs_vars == <<wire, hdr, request, read_first, received, passed, passed_valid, sent, nsend, nerr, err_used>>
vars == <<http_vars, proto_vars, co_vars, obs_vars>>

\* what a handler passes to send()
Datas ==
    IF scope = "response" THEN {Data(n) : n \in (0..MaxData) \cup {LongData}}
    ELSE {Data(0), Data(1)}
SendBound == IF scope = "response" THEN MaxSends ELSE FewSends
RequestBound == IF scope = "connection" THEN MaxRequests ELSE 1

\* what a handler passes to respond(): status 100 is not a valid final status
Responses ==
    CASE scope = "response" ->
           {[status |-> 200, cl |-> c, body |-> b] :
                c \in {NoCL} \cup 0..MaxLen, b \in {Data(0), Data(1)}}
           \cup {[status |-> 204, cl |-> c, body |-> Data(1)] : c \in {NoCL, 1}}
           \cup {[status |-> 100, cl |-> NoCL, body |-> Data(0)]}
      [] scope = "status" ->
           {[status |-> s, cl |-> c, body |-> b] :
                s \in {304, 412}, c \in {NoCL, MaxLen}, b \in {Data(0), Data(1)}}
      [] scope = "request" ->
           {[status |-> 200, cl |-> NoCL, body |-> Data(1)],
            [status |-> 200, cl |-> 1, body |-> Data(0)],
            [status |-> 417, cl |-> NoCL, body |-> Data(0)]}
      [] OTHER ->
           {[status |-> 200, cl |-> c, body |-> Data(0)] : c \in {NoCL, 1}}

\* the Http object as a value, for the methods below
Http ==
    [stage |-> stage, keep_alive |-> keep_alive, head_only |-> head_only,
     expecting_continue |-> expecting_continue,
     response |-> response, response_func |-> response_func,
     response_bytes_left |-> response_bytes_left]

\* ----------------------------------------------------- framing primitives
\* sanic.helpers.has_message_body
has_message_body(status) == ~((100 <= status /\ status < 200) \/ status \in {204, 304})

\* sanic.helpers.remove_entity_headers, as far as content-length goes
remove_entity_headers(cl) == NoCL

\* sanic.headers.format_http1_response(status, headers, body): the header
\* block, then the body as given
format_http1_response(data) == <<HEAD>> \o data

\* b"%x\r\n%b\r\n" % (size, data)
Chunk(data) == Hex(Len(data)) \o <<CR, LF>> \o data \o <<CR, LF>>
LastChunk == <<"0", CR, LF, CR, LF>>

\* What a framer gives back: the Http object after the call, the bytes it
\* returns (<<>> for None), the header block it formatted, what it raised.
Result(h, out, head, raised) == [h |-> h, out |-> out, head |-> head, raised |-> raised]

\* a start of the response that strips the entity headers of 304 only
StrippedLength_NotModifiedOnly(status, cl) ==
    IF status = 304 THEN remove_entity_headers(cl) ELSE cl

\* Http.http1_response_start, lines 179-181: the content-length header after
\* the entity headers of a 304 or 412 response were removed
StrippedLength(status, cl) ==
    IF status \in {304, 412} THEN remove_entity_headers(cl) ELSE cl

\* Http.http1_response_start
http1_response_start(h, data0, end0) ==
    LET res == h.response
        simple == data0 = <<>> /\ res.body # <<>>
        data1 == IF simple THEN res.body ELSE data0
        end1 == IF simple THEN TRUE ELSE end0
        status == res.status
        cl0 == StrippedLength(status, res.cl)
        nobody == ~has_message_body(status)
        headcl == ~nobody /\ h.head_only /\ cl0 # NoCL
        oneshot == ~nobody /\ ~headcl /\ end1
        fixed == ~nobody /\ ~headcl /\ ~oneshot /\ cl0 # NoCL
        chunked == ~nobody /\ ~headcl /\ ~oneshot /\ ~fixed
        end_stream == IF nobody THEN TRUE ELSE end1
        data2 == IF nobody THEN <<>>
                 ELSE IF chunked THEN (IF Len(data1) > 0 THEN Chunk(data1) ELSE <<>>)
                 ELSE data1
        cl == IF nobody THEN NoCL ELSE IF oneshot THEN Len(data1) ELSE cl0
        func0 == IF fixed THEN "normal" ELSE IF chunked THEN "chunked" ELSE "None"
        data == IF h.head_only THEN <<>> ELSE data2
        func == IF h.head_only THEN "head_ignored" ELSE func0
        head == [res |-> res, cl |-> cl, te |-> chunked,
                 conn |-> IF h.keep_alive THEN "keep-alive" ELSE "close"]
        ret0 == format_http1_response(data)
        out == IF h.expecting_continue /\ status # 417 THEN HTTP_CONTINUE \o ret0 ELSE ret0
    IN  IF res = NoResponse
        THEN Result(h, <<>>, NoHead, "AttributeError")
        ELSE Result([h EXCEPT !.response_func = func,
                              !.response_bytes_left =
                                  IF fixed THEN cl0 - Len(data1) ELSE @,
                              !.expecting_continue = FALSE,
                              !.stage = IF end_stream THEN IDLE ELSE RESPONSE],
                    out, head, "None")

\* a HEAD follow-up that lets the data through
head_response_ignored_Written(h, data, end_stream) ==
    Result(IF end_stream THEN [h EXCEPT !.response_func = "None", !.stage = IDLE] ELSE h,
           data, NoHead, "None")

\* Http.head_response_ignored
head_response_ignored(h, data, end_stream) ==
    Result(IF end_stream THEN [h EXCEPT !.response_func = "None", !.stage = IDLE] ELSE h,
           <<>>, NoHead, "None")

\* a framer that ends the stream without the last-chunk after data
http1_response_chunked_NoTerminator(h, data, end_stream) ==
    IF end_stream
    THEN Result([h EXCEPT !.response_func = "None", !.stage = IDLE],
                IF Len(data) > 0 THEN Chunk(data) ELSE LastChunk, NoHead, "None")
    ELSE Result(h, IF Len(data) > 0 THEN Chunk(data) ELSE <<>>, NoHead, "None")

\* Http.http1_response_chunked
http1_response_chunked(h, data, end_stream) ==
    IF end_stream
    THEN Result([h EXCEPT !.response_func = "None", !.stage = IDLE],
                IF Len(data) > 0 THEN Chunk(data) \o LastChunk ELSE LastChunk,
                NoHead, "None")
    ELSE Result(h, IF Len(data) > 0 THEN Chunk(data) ELSE <<>>, NoHead, "None")

\* a fixed-length framer that drops itself at the last byte and leaves the stage
http1_response_normal_StageKept(h, data, end_stream) ==
    LET left == h.response_bytes_left - Len(data)
        h1 == [h EXCEPT !.response_bytes_left = left]
    IN  IF left <= 0
        THEN IF left < 0
             THEN Result(h1, <<>>, NoHead, "ServerError")
             ELSE Result([h1 EXCEPT !.response_func = "None"], data, NoHead, "None")
        ELSE IF end_stream
             THEN Result(h1, <<>>, NoHead, "ServerError")
             ELSE Result(h1, data, NoHead, "None")

\* Http.http1_response_normal
http1_response_normal(h, data, end_stream) ==
    LET left == h.response_bytes_left - Len(data)
        h1 == [h EXCEPT !.response_bytes_left = left]
    IN  IF left <= 0
        THEN IF left < 0
             THEN Result(h1, <<>>, NoHead, "ServerError")
             ELSE Result([h1 EXCEPT !.response_func = "None", !.stage = IDLE],
                         data, NoHead, "None")
        ELSE IF end_stream
             THEN Result(h1, <<>>, NoHead, "ServerError")
             ELSE Result(h1, data, NoHead, "None")

\* Http.send up to the call of the driver's send: self.response_func(data, end_stream)
send(h, data, end_stream) ==
    CASE h.response_func = "start" -> http1_response_start(h, data, end_stream)
      [] h.response_func = "normal" -> http1_response_normal(h, data, end_stream)
      [] h.response_func = "chunked" -> http1_response_chunked(h, data, end_stream)
      [] h.response_func = "head_ignored" -> head_response_ignored(h, data, end_stream)
      [] OTHER -> Result(h, <<>>, NoHead, "TypeError")

\* a respond that registers the response in any stage
respond_AnyStage(h, r) ==
    IF r.status < 200
    THEN Result(h, <<>>, NoHead, "RuntimeError")
    ELSE Result([h EXCEPT !.response = r], <<>>, NoHead, "None")

\* Http.respond
respond(h, r) ==
    IF h.stage # HANDLER
    THEN Result([h EXCEPT !.stage = FAILED], <<>>, NoHead, "RuntimeError")
    ELSE IF r.status < 200
         THEN Result(h, <<>>, NoHead, "RuntimeError")
         ELSE Result([h EXCEPT !.response = r], <<>>, NoHead, "None")

\* app.handle_exception(request, exception): the error response of an exception
StatusOf(e) ==
    CASE e = "RequestTimeout" -> 408
      [] e \in {"ServiceUnavailable(Cancelled)", "ServiceUnavailable(Response Timeout)"} -> 503
      [] e = "InvalidUsage" -> 400
      [] e = "PayloadTooLarge" -> 413
      [] e = "HeaderExpectationFailed" -> 417
      [] OTHER -> 500
handle_exception(e) == [status |-> StatusOf(e), cl |-> NoCL, body |-> Data(1)]

\* ------------------------------------------------------------- requests
\* What http1_request_header finds in a complete header block.
\*   body: "none" (neither content-length nor transfer-encoding), "cl"
\*   (content-length: clen), "chunked" (transfer-encoding: chunked), "badcl"
\*   (a transfer-encoding other than chunked and no content-length, or a
\*   content-length that is not a number)
AllRequests ==
    [version : {"HTTP/1.1", "HTTP/1.0"}, head : BOOLEAN,
     connection : {"none", "keep-alive", "close"},
     body : {"none", "cl", "chunked", "badcl"}, clen : 0..MaxBody,
     expect : {"none", "100-continue", "other"}]

Requests ==
    CASE scope \in {"response", "status"} ->
           {r \in AllRequests : r.version = "HTTP/1.1" /\ r.connection = "none"
                                /\ r.body = "none" /\ r.clen = 0 /\ r.expect = "none"}
      [] scope = "request" -> AllRequests
      [] scope \in {"timing", "buffer", "shutdown"} ->
           {r \in AllRequests : r.version = "HTTP/1.1" /\ r.connection = "none" /\ ~r.head
                                /\ r.body = "none" /\ r.clen = 0 /\ r.expect = "none"}
      [] OTHER -> {r \in AllRequests : ~r.head /\ r.connection = "none"
                                        /\ r.expect = "none" /\ r.body # "badcl"}

SuspendPoints == {"recv_header", "handler", "read_wait", "blocked", "wait_next"}

\* ----------------------------------------------------------------- Init
\* HttpProtocol.check_timeouts, lines 164-172: the delay of call_later, in ticks
WatchdogInterval ==
    Max(MinInterval, Min(keep_alive_timeout, Min(request_timeout, response_timeout)))

\* a watchdog that gives an idle connection the time of a request
Timeout_NoIdle == 2 * (IF stage \in {IDLE, REQUEST} THEN request_timeout ELSE response_timeout)

\* HttpProtocol.check_timeouts, lines 153-163: the timeout of the stage, in ticks
Timeout ==
    2 * (CASE stage = IDLE -> keep_alive_timeout
           [] stage = REQUEST -> request_timeout
           [] OTHER -> response_timeout)

\* Http.__init__, HttpProtocol.__init__ and connection_made; connection_task
\* has run up to its call of http1().
InitConnection ==
    /\ stage = IDLE /\ idle_from = 0 /\ keep_alive = TRUE /\ head_only = FALSE
    /\ expecting_continue = FALSE
    /\ request_chunked = FALSE /\ request_bytes_left = 0
    /\ response = NoResponse /\ response_func = "None" /\ response_bytes_left = 0
    /\ exception = "None"
    /\ transport = "set" /\ closing = FALSE /\ can_write = TRUE
    /\ task = "running" /\ cancel_pending = FALSE /\ watchdog = 1 /\ lost = FALSE
    /\ requests_count = 0
    /\ serve = "run_forever" /\ stopped = FALSE /\ start_shutdown = <<0, 0>> /\ polls = 0
    /\ coros = "none"
    /\ now = 0 /\ time = 0 /\ due = WatchdogInterval
    /\ recv_buffer = <<>> /\ pos = 0 /\ total_request_size = NoSize /\ delivered = <<>>
    /\ pc = "loop_top" /\ ret = "none" /\ pending = <<>> /\ reader = "none" /\ exc = "None"
    /\ wire = <<>> /\ hdr = NoHead /\ request = NoRequest /\ read_first = FALSE
    /\ received = FALSE
    /\ passed = NoResponse /\ passed_valid = NoResponse /\ sent = <<>> /\ nsend = 0
    /\ nerr = 0 /\ err_used = "None"

\* one configuration of the timeouts, no byte-level view of the requests
Plain ==
    /\ keep_alive_timeout = 1 /\ request_timeout = 2 /\ response_timeout = 3
    /\ inbound = <<>> /\ first = <<>>
    /\ graceful = 0 /\ websocket = FALSE

Init == Plain /\ InitConnection /\ scope = "connection"

\* ------------------------------------------------- pieces of the actions
SetHttp(h) ==
    /\ stage' = h.stage /\ keep_alive' = h.keep_alive /\ head_only' = h.head_only
    /\ idle_from' = IF h.stage = IDLE /\ stage # IDLE THEN now ELSE idle_from
    /\ expecting_continue' = h.expecting_continue
    /\ response' = h.response /\ response_func' = h.response_func
    /\ response_bytes_left' = h.response_bytes_left

\* Where an exception raised at a call goes: into the handler (which may
\* catch it, CancelledError excepted), to the except clauses of http1, or,
\* from inside those clauses, out of http1.
Where(cont, rd) ==
    IF cont = "loop_end" THEN "out"
    ELSE IF cont = "handler" \/ (cont = "read_body" /\ rd = "handler") THEN "handler"
    ELSE "try"

Raise(e, where) ==
    /\ exc' = e
    /\ pc' \in (IF where = "out" THEN {"exit"}
                ELSE IF where = "handler" /\ e # "CancelledError" THEN {"handler", "except"}
                ELSE {"except"})

\* HttpProtocol.send after the can_write gate
ProtoWrite(data, cont, rd) ==
    IF transport = "None"
    THEN Raise("AttributeError", Where(cont, rd)) /\ wire' = wire
    ELSE IF closing
         THEN Raise("CancelledError", Where(cont, rd)) /\ wire' = wire
         ELSE wire' = wire \o data /\ pc' = cont /\ exc' = "None"

\* HttpProtocol.send, line 185: a write sets _time
Stamp == time' = IF wire' # wire THEN now ELSE time

\* HttpProtocol.send
ProtoSend(data, cont, rd) ==
    IF can_write
    THEN ProtoWrite(data, cont, rd) /\ ret' = "none" /\ pending' = <<>>
    ELSE pc' = "blocked" /\ ret' = cont /\ pending' = data /\ wire' = wire /\ exc' = "None"

\* Http.send after the framer res has run: `if not data: return`, else the write
Written(res, cont, rd) ==
    IF res.raised # "None"
    THEN Raise(res.raised, Where(cont, rd)) /\ wire' = wire /\ UNCHANGED <<ret, pending>>
    ELSE IF res.out = <<>>
         THEN pc' = cont /\ exc' = "None" /\ wire' = wire /\ UNCHANGED <<ret, pending>>
         ELSE ProtoSend(res.out, cont, rd)

\* ------------------------------------------------------------ the engine
\* Http.http1, top of the loop: a new exchange begins
http1_loop ==
    /\ pc = "loop_top"
    /\ stage' = REQUEST /\ response_func' = "start" /\ idle_from' = idle_from
    /\ pc' = "request_header"
    /\ wire' = <<>> /\ hdr' = NoHead /\ sent' = <<>> /\ nsend' = 0 /\ nerr' = 0
    /\ err_used' = "None" /\ request' = NoRequest /\ read_first' = FALSE
    /\ reader' = "none"
    /\ UNCHANGED <<keep_alive, head_only, expecting_continue, request_chunked,
                   request_bytes_left, response, response_bytes_left, exception,
                   proto_vars, ret, pending, exc, received, passed, passed_valid>>

\* Http.http1_request_header, the buffer holds no complete header block yet:
\* wait in receive_more (the peer sends at most MaxRequests requests)
request_header_more ==
    /\ pc = "request_header"
    /\ pc' = "recv_header"
    /\ UNCHANGED <<http_vars, proto_vars, ret, pending, reader, exc, obs_vars>>

\* Http.http1_request_header, the buffer reached request_max_size
\* (PayloadTooLarge) or the header block does not parse (InvalidUsage)
request_header_fail ==
    /\ pc = "request_header" /\ requests_count < RequestBound
    /\ \E e \in {"PayloadTooLarge", "InvalidUsage"} :
          /\ Raise(e, "try")
          \* the request line and some headers may have been taken in before the failure
          /\ keep_alive' \in (IF e = "InvalidUsage" THEN BOOLEAN ELSE {keep_alive})
          /\ head_only' \in (IF e = "InvalidUsage" THEN BOOLEAN ELSE {head_only})
    /\ received' = FALSE
    /\ UNCHANGED <<stage, idle_from, expecting_continue, request_chunked,
                   request_bytes_left, response, response_func, response_bytes_left,
                   exception, proto_vars, ret, pending, reader, wire, hdr, request,
                   read_first, passed, passed_valid, sent, nsend, nerr, err_used>>

\* keep_alive after the request line and the connection header
ParsedKeepAlive(r) ==
    IF r.connection = "none" THEN r.version = "HTTP/1.1" ELSE r.connection = "keep-alive"

\* Http.http1_request_header, the header block parses as request r
request_header_parsed(r) ==
    LET body == r.body # "none"
        badexpect == body /\ r.expect = "other"
        badlen == body /\ ~badexpect /\ r.body = "badcl"
    IN  /\ pc = "request_header" /\ requests_count < RequestBound
        /\ keep_alive' = ParsedKeepAlive(r)
        /\ head_only' = r.head
        /\ requests_count' = requests_count + 1
        /\ request' = [expect |-> r.expect, body |-> body]
        /\ idle_from' = idle_from
        /\ received' = FALSE
        /\ expecting_continue' = IF body /\ r.expect = "100-continue" THEN TRUE
                                 ELSE expecting_continue
        /\ request_chunked' = (body /\ ~badexpect /\ r.body = "chunked")
        /\ request_bytes_left' = IF body /\ ~badexpect /\ r.body = "cl" THEN r.clen ELSE 0
        /\ IF badexpect THEN Raise("HeaderExpectationFailed", "try") /\ stage' = stage
           ELSE IF badlen THEN Raise("ValueError", "try") /\ stage' = stage
           ELSE pc' = "handler" /\ exc' = "None" /\ stage' = HANDLER
        /\ UNCHANGED <<scope, serve_vars, time, clock_vars, buf_vars, response, response_func, response_bytes_left, exception,
                       transport, closing, can_write, task, cancel_pending, watchdog, lost,
                       ret, pending, reader, wire, hdr, read_first, passed, passed_valid,
                       sent, nsend, nerr, err_used>>

http1_request_header ==
    \/ request_header_more
    \/ request_header_fail
    \/ \E r \in Requests : request_header_parsed(r)

\* ----------------------------------------------------------- the handler
\* the handler calls Http.respond(r)
HandlerRespond(r) ==
    LET res == respond(Http, r)
    IN  /\ pc = "handler" /\ ~cancel_pending
        /\ SetHttp(res.h)
        /\ passed' = IF stage = HANDLER THEN r ELSE passed
        /\ passed_valid' = IF stage = HANDLER /\ r.status >= 200 THEN r ELSE passed_valid
        /\ IF res.raised # "None" THEN Raise(res.raised, "handler")
           ELSE pc' = "handler" /\ exc' = "None"
        /\ UNCHANGED <<request_chunked, request_bytes_left, exception, proto_vars,
                       ret, pending, reader, wire, hdr, request, read_first, received, sent, nsend,
                       nerr, err_used>>

\* the handler calls Http.send(data, end_stream)
HandlerSend(data, end_stream) ==
    LET res == send(Http, data, end_stream)
    IN  /\ pc = "handler" /\ ~cancel_pending
        /\ data = <<>> \/ nsend < SendBound
        /\ SetHttp(res.h)
        /\ hdr' = IF res.head # NoHead THEN res.head ELSE hdr
        /\ sent' = IF res.raised = "None" THEN sent \o data ELSE sent
        /\ nsend' = IF data = <<>> THEN nsend ELSE nsend + 1
        /\ Written(res, "handler", reader)
        /\ UNCHANGED <<request_chunked, request_bytes_left, exception, quiet_vars,
                       reader, request, read_first, received, passed, passed_valid, nerr, err_used>>
        /\ Stamp

\* a read that leaves expecting_continue set
ReadStart_KeepExpecting(rd) ==
    /\ read_first' = (read_first \/ (hdr = NoHead /\ request.expect # "none"))
    /\ IF expecting_continue
       THEN ProtoSend(HTTP_CONTINUE, "read_body", rd)
       ELSE pc' = "read_body" /\ exc' = "None" /\ UNCHANGED <<ret, pending, wire>>
    /\ reader' = IF pc' \in {"read_body", "blocked"} THEN rd ELSE "none"
    /\ UNCHANGED <<stage, idle_from, keep_alive, head_only, expecting_continue, request_chunked,
                   request_bytes_left, response, response_func, response_bytes_left,
                   exception, quiet_vars, hdr, request, received, passed, passed_valid,
                   sent, nsend, nerr, err_used>>
    /\ Stamp

\* Http.read, lines 312-314: the interim response, once
ReadStart(rd) ==
    /\ read_first' = (read_first \/ (hdr = NoHead /\ request.expect # "none"))
    /\ expecting_continue' = FALSE
    /\ IF expecting_continue
       THEN ProtoSend(HTTP_CONTINUE, "read_body", rd)
       ELSE pc' = "read_body" /\ exc' = "None" /\ UNCHANGED <<ret, pending, wire>>
    /\ reader' = IF pc' \in {"read_body", "blocked"} THEN rd ELSE "none"
    /\ UNCHANGED <<stage, idle_from, keep_alive, head_only, request_chunked, request_bytes_left,
                   response, response_func, response_bytes_left, exception, quiet_vars,
                   hdr, request, received, passed, passed_valid, sent, nsend, nerr,
                   err_used>>
    /\ Stamp

\* the handler calls Http.read()
HandlerRead ==
    /\ pc = "handler" /\ ~cancel_pending
    /\ ReadStart("handler")

\* the handler raises an exception of its own
HandlerRaise ==
    /\ pc = "handler" /\ ~cancel_pending
    /\ Raise("HandlerError", "try")
    /\ UNCHANGED <<http_vars, proto_vars, ret, pending, reader, obs_vars>>

\* Http.http1, lines 73-76: the handler returned
HandlerReturn ==
    LET res == send(Http, <<>>, TRUE)
    IN  /\ pc = "handler" /\ ~cancel_pending
        /\ IF stage = HANDLER
           THEN /\ Raise("ServerError", "try")
                /\ UNCHANGED <<stage, idle_from, keep_alive, head_only, expecting_continue, response,
                               response_func, response_bytes_left, ret, pending, wire, hdr>>
           ELSE IF stage = RESPONSE
                THEN /\ SetHttp(res.h)
                     /\ hdr' = IF res.head # NoHead THEN res.head ELSE hdr
                     /\ Written(res, "drain_check", reader)
                ELSE /\ pc' = "drain_check" /\ exc' = "None"
                     /\ UNCHANGED <<stage, idle_from, keep_alive, head_only, expecting_continue,
                                    response, response_func, response_bytes_left,
                                    ret, pending, wire, hdr>>
        /\ UNCHANGED <<request_chunked, request_bytes_left, exception, quiet_vars,
                       reader, request, read_first, received, passed, passed_valid, sent, nsend,
                       nerr, err_used>>
        /\ Stamp

\* Http.http1, lines 78-81: drain what is left of the request body
DrainCheck ==
    /\ pc = "drain_check"
    /\ IF request_bytes_left # 0 \/ request_chunked
       THEN ReadStart("drain")
       ELSE /\ pc' = "loop_end"
            /\ UNCHANGED <<http_vars, proto_vars, ret, pending, reader, exc, obs_vars>>

\* Http.read, lines 317-337: a chunk-size line.  protocol._total_request_size
\* is set nowhere (and is no slot of HttpProtocol), so line 333 raises
\* AttributeError after request_bytes_left is set and before the line is
\* removed from the buffer.
ReadChunkHeader ==
    /\ pc = "read_body" /\ request_chunked /\ request_bytes_left = 0
    /\ \/ pc' = "read_wait" /\ UNCHANGED <<exc, keep_alive, request_bytes_left, reader>>
       \/ /\ keep_alive' = FALSE         \* longer than 64 bytes, or no hex number
          /\ Raise("InvalidUsage", Where("read_body", reader))
          /\ reader' = "none"
          /\ UNCHANGED request_bytes_left
       \/ \E size \in 0..MaxBody :
             /\ request_bytes_left' = size
             /\ Raise("AttributeError", Where("read_body", reader))
             /\ reader' = "none"
             /\ UNCHANGED keep_alive
    /\ UNCHANGED <<stage, idle_from, head_only, expecting_continue, request_chunked, response,
                   response_func, response_bytes_left, exception, proto_vars,
                   ret, pending, obs_vars>>

\* Http.read, lines 339-350: body bytes.  size bytes leave the buffer, then
\* line 346 raises AttributeError (see ReadChunkHeader): no data is returned.
ReadData ==
    /\ pc = "read_body" /\ ~(request_chunked /\ request_bytes_left = 0)
    /\ request_bytes_left # 0
    /\ \/ pc' = "read_wait" /\ UNCHANGED <<exc, request_bytes_left, reader>>
       \/ \E size \in 0..MaxBody :
             /\ IF request_bytes_left > 0 THEN size \in 1..request_bytes_left ELSE TRUE
             /\ request_bytes_left' = request_bytes_left - size
             /\ request_bytes_left' >= -MaxBody - 1
             /\ Raise("AttributeError", Where("read_body", reader))
             /\ reader' = "none"
    /\ UNCHANGED <<stage, idle_from, keep_alive, head_only, expecting_continue, request_chunked, response,
                   response_func, response_bytes_left, exception, proto_vars,
                   ret, pending, obs_vars>>

\* Http.read, line 351: no body (left): None
ReadNone ==
    /\ pc = "read_body" /\ ~(request_chunked /\ request_bytes_left = 0)
    /\ request_bytes_left = 0
    /\ pc' = IF reader = "handler" THEN "handler" ELSE "loop_end"
    /\ exc' = "None" /\ reader' = "none"
    /\ UNCHANGED <<http_vars, proto_vars, ret, pending, obs_vars>>

\* --------------------------------------------------------- the error path
\* an error path that leaves keep_alive alone
error_response_KeepAlive(h, e) ==
    LET h1 == [h EXCEPT !.stage = IF h.stage = REQUEST THEN HANDLER ELSE @]
        r1 == respond(h1, handle_exception(e))
    IN  IF h1.stage = HANDLER
        THEN IF r1.raised # "None" THEN r1 ELSE send(r1.h, <<>>, TRUE)
        ELSE Result(h1, <<>>, NoHead, "None")

\* Http.error_response
error_response(h, e) ==
    LET h1 == [h EXCEPT !.keep_alive = IF h.stage # HANDLER THEN FALSE ELSE @,
                        !.stage = IF h.stage = REQUEST THEN HANDLER ELSE @]
        r1 == respond(h1, handle_exception(e))
    IN  IF h1.stage = HANDLER
        THEN IF r1.raised # "None" THEN r1 ELSE send(r1.h, <<>>, TRUE)
        ELSE Result(h1, <<>>, NoHead, "None")

\* an except clause that ignores the exception attached by the watchdog
ErrorUsed_Cancelled == IF exc = "CancelledError" THEN "ServiceUnavailable(Cancelled)" ELSE exc

\* the error that the except clauses of http1 give to error_response
ErrorUsed ==
    IF exc = "CancelledError"
    THEN IF exception # "None" THEN exception ELSE "ServiceUnavailable(Cancelled)"
    ELSE exc

\* Http.http1, lines 82-90: an exception left the try block
http1_except ==
    LET cancelled == exc = "CancelledError"
        h0 == [Http EXCEPT !.keep_alive = IF cancelled THEN FALSE ELSE @]
        res == error_response(h0, ErrorUsed)
        responds == res.head # NoHead \/ res.raised # "None"
    IN  /\ pc = "except"
        /\ exception' = IF cancelled THEN "None" ELSE exception
        /\ SetHttp(res.h)
        /\ err_used' = ErrorUsed
        /\ nerr' = IF responds THEN nerr + 1 ELSE nerr
        /\ passed' = IF responds THEN handle_exception(ErrorUsed) ELSE passed
        /\ passed_valid' = IF responds THEN handle_exception(ErrorUsed) ELSE passed_valid
        /\ hdr' = IF res.head # NoHead THEN res.head ELSE hdr
        /\ Written(res, "loop_end", reader)
        /\ UNCHANGED <<request_chunked, request_bytes_left, quiet_vars, reader,
                       request, read_first, received, sent, nsend>>
        /\ Stamp

\* `not self.recv_buffer`: without the byte-level view either answer
BufferEmpty == IF scope = "buffer" THEN {recv_buffer = <<>>} ELSE BOOLEAN

\* a loop that looks at the stage only
LoopBreak_StageOnly(h) == h.stage # IDLE

\* Http.http1, line 92: leave the loop
LoopBreak(h) == h.stage # IDLE \/ ~h.keep_alive

\* Http.http1, lines 92-96
http1_loop_end ==
    /\ pc = "loop_end"
    /\ IF LoopBreak(Http) THEN pc' = "exit" /\ received' = FALSE
       ELSE \E empty \in BufferEmpty :
               /\ pc' = IF empty THEN "wait_next" ELSE "loop_top"
               /\ received' = ~empty
    /\ exc' = "None"
    /\ UNCHANGED <<http_vars, proto_vars, ret, pending, reader, wire, hdr, request,
                   read_first, passed, passed_valid, sent, nsend, nerr, err_used>>

\* HttpProtocol.close
close ==
    /\ transport' = "None"
    /\ closing' = (closing \/ transport = "set")

\* HttpProtocol.connection_task, lines 124-140: http1 returned or raised
connection_task_exit ==
    /\ pc = "exit"
    /\ pc' = "done"
    /\ task' = "None" /\ cancel_pending' = FALSE
    /\ close
    /\ UNCHANGED <<http_vars, can_write, watchdog, lost, requests_count, scope, serve_vars, time, clock_vars, buf_vars,
                   ret, pending, reader, exc, obs_vars>>

\* HttpProtocol.send, line 181 onwards: the gate opened
send_resume ==
    /\ pc = "blocked" /\ can_write /\ ~cancel_pending
    /\ ProtoWrite(pending, ret, reader)
    /\ ret' = "none" /\ pending' = <<>>
    /\ UNCHANGED <<http_vars, quiet_vars, reader, hdr, request, read_first, received, passed,
                   passed_valid, sent, nsend, nerr, err_used>>
    /\ Stamp

\* CancelledError is thrown into the suspended coroutine: inside the try
\* block http1 catches it, elsewhere it leaves http1
cancelled ==
    /\ pc \in SuspendPoints /\ cancel_pending
    /\ cancel_pending' = FALSE
    /\ exc' = "CancelledError"
    /\ pc' = IF pc = "wait_next" \/ (pc = "blocked" /\ ret = "loop_end")
             THEN "exit" ELSE "except"
    /\ ret' = "none" /\ pending' = <<>>
    /\ reader' = "none"
    /\ UNCHANGED <<http_vars, transport, closing, can_write, task, watchdog, lost,
                   requests_count, scope, serve_vars, time, clock_vars, buf_vars, obs_vars>>

\* ------------------------------------------------ callbacks of the loop
\* They run while the coroutine is suspended, or after it has ended.
Callback == pc \in SuspendPoints \cup {"done"}

\* HttpProtocol.data_received wakes the coroutine waiting in receive_more
data_received ==
    /\ pc \in {"recv_header", "read_wait", "wait_next"} /\ ~cancel_pending
    /\ transport = "set" /\ ~closing
    /\ pc' = CASE pc = "recv_header" -> "request_header"
               [] pc = "read_wait" -> "read_body"
               [] OTHER -> "loop_top"
    /\ time' = now
    /\ received' = (received \/ pc # "read_wait")
    /\ UNCHANGED <<http_vars, quiet_vars, ret, pending, reader, exc, wire, hdr, request,
                   read_first, passed, passed_valid, sent, nsend, nerr, err_used>>

\* HttpProtocol.pause_writing
pause_writing ==
    /\ Callback /\ transport = "set" /\ ~closing /\ can_write
    /\ can_write' = FALSE
    /\ UNCHANGED <<http_vars, transport, closing, task, cancel_pending, watchdog, lost,
                   requests_count, scope, serve_vars, time, clock_vars, buf_vars, co_vars, obs_vars>>

\* HttpProtocol.resume_writing
resume_writing ==
    /\ Callback /\ transport = "set" /\ ~closing /\ ~can_write
    /\ can_write' = TRUE
    /\ UNCHANGED <<http_vars, transport, closing, task, cancel_pending, watchdog, lost,
                   requests_count, scope, serve_vars, time, clock_vars, buf_vars, co_vars, obs_vars>>

\* HttpProtocol.check_timeouts, lines 153-163: has the timeout of the stage
\* expired?  Where no clock runs, either answer.
Expiry == IF scope = "timing" THEN {now - time > Timeout} ELSE BOOLEAN

\* loop.call_later: the callback runs when it is due
Fires == Callback /\ watchdog > 0 /\ (scope = "timing" => now = due)

\* HttpProtocol.check_timeouts, no timeout has expired: scheduled again
check_timeouts_rearm ==
    /\ Fires /\ task = "running" /\ FALSE \in Expiry
    /\ watchdog' = (watchdog - 1) + 1
    /\ due' = now + WatchdogInterval
    /\ UNCHANGED <<http_vars, scope, serve_vars, time, now, keep_alive_timeout, request_timeout,
                   response_timeout, buf_vars, transport, closing, can_write, task,
                   cancel_pending, lost, requests_count, co_vars, obs_vars>>

\* a watchdog that cancels the task and is scheduled again all the same
check_timeouts_expired_Rearmed ==
    /\ Fires /\ task = "running" /\ TRUE \in Expiry
    /\ exception' = CASE stage = IDLE -> exception
                      [] stage = REQUEST -> "RequestTimeout"
                      [] OTHER -> "ServiceUnavailable(Response Timeout)"
    /\ cancel_pending' = TRUE
    /\ watchdog' = (watchdog - 1) + 1
    /\ due' = now + WatchdogInterval
    /\ UNCHANGED <<stage, idle_from, keep_alive, head_only, expecting_continue, request_chunked,
                   request_bytes_left, response, response_func, response_bytes_left,
                   scope, serve_vars, time, now, keep_alive_timeout, request_timeout,
                   response_timeout, buf_vars, transport, closing, can_write, task, lost,
                   requests_count, co_vars, obs_vars>>

\* HttpProtocol.check_timeouts, the timeout of the stage has expired
check_timeouts_expired ==
    /\ Fires /\ task = "running" /\ TRUE \in Expiry
    /\ exception' = CASE stage = IDLE -> exception
                      [] stage = REQUEST -> "RequestTimeout"
                      [] OTHER -> "ServiceUnavailable(Response Timeout)"
    /\ cancel_pending' = TRUE
    /\ watchdog' = watchdog - 1
    /\ UNCHANGED <<stage, idle_from, keep_alive, head_only, expecting_continue, request_chunked,
                   request_bytes_left, response, response_func, response_bytes_left,
                   scope, serve_vars, time, clock_vars, buf_vars, transport, closing, can_write,
                   task, lost, requests_count, co_vars, obs_vars>>

\* HttpProtocol.check_timeouts, the task is gone
check_timeouts_stop ==
    /\ Fires /\ task = "None"
    /\ watchdog' = watchdog - 1
    /\ UNCHANGED <<http_vars, transport, closing, can_write, task, cancel_pending, lost,
                   requests_count, scope, serve_vars, time, clock_vars, buf_vars, co_vars, obs_vars>>

\* the clock of the event loop: time passes while the coroutine is suspended,
\* and never past a callback that is due or a cancellation to deliver
Tick ==
    /\ Callback /\ ~cancel_pending /\ now < MaxTime
    /\ watchdog > 0 => now < due
    /\ now' = now + 1
    /\ UNCHANGED <<http_vars, scope, serve_vars, time, due, keep_alive_timeout, request_timeout,
                   response_timeout, buf_vars, transport, closing, can_write, task,
                   cancel_pending, watchdog, lost, requests_count, co_vars, obs_vars>>

check_timeouts == check_timeouts_rearm \/ check_timeouts_expired \/ check_timeouts_stop

\* the peer resets the connection: the transport is closing
peer_lost ==
    /\ Callback /\ transport = "set" /\ ~closing
    /\ closing' = TRUE
    /\ UNCHANGED <<http_vars, transport, can_write, task, cancel_pending, watchdog, lost,
                   requests_count, scope, serve_vars, time, clock_vars, buf_vars, co_vars, obs_vars>>

\* HttpProtocol.connection_lost
connection_lost ==
    /\ Callback /\ closing /\ ~lost
    /\ lost' = TRUE
    /\ can_write' = TRUE
    /\ cancel_pending' = (cancel_pending \/ task = "running")
    /\ UNCHANGED <<http_vars, transport, closing, task, watchdog, requests_count, scope, serve_vars, time, clock_vars, buf_vars,
                   co_vars, obs_vars>>

\* HttpProtocol.close_if_idle, line 192: what it returns (connection_task
\* clears _http together with _task)
close_if_idle_returns == task = "None" \/ stage = IDLE

\* HttpProtocol.close_if_idle, called at shutdown
close_if_idle ==
    /\ Callback /\ ~lost
    /\ IF close_if_idle_returns THEN close ELSE UNCHANGED <<transport, closing>>
    /\ UNCHANGED <<http_vars, can_write, task, cancel_pending, watchdog, lost,
                   requests_count, scope, serve_vars, time, clock_vars, buf_vars, co_vars, obs_vars>>

\* HttpProtocol.close called by serve() at the end of the graceful shutdown
force_close ==
    /\ Callback /\ ~lost
    /\ close
    /\ UNCHANGED <<http_vars, can_write, task, cancel_pending, watchdog, lost,
                   requests_count, scope, serve_vars, time, clock_vars, buf_vars, co_vars, obs_vars>>

\* ------------------------------------------------------------------ Next
Engine ==
    \/ http1_loop
    \/ http1_request_header
    \/ \E r \in Responses : HandlerRespond(r)
    \/ \E d \in Datas, e \in BOOLEAN : HandlerSend(d, e)
    \/ HandlerRead
    \/ HandlerRaise
    \/ HandlerReturn
    \/ DrainCheck
    \/ ReadChunkHeader
    \/ ReadData
    \/ ReadNone
    \/ http1_except
    \/ http1_loop_end
    \/ connection_task_exit
    \/ send_resume
    \/ cancelled

Driver ==
    \/ data_received
    \/ pause_writing
    \/ resume_writing
    \/ check_timeouts
    \/ peer_lost
    \/ connection_lost
    \/ close_if_idle
    \/ force_close

Next == Engine \/ Driver

Spec == Init /\ [][Next]_vars

\* ------------------------------------------------- one exchange, in detail
\* The connection is quiet: the peer sends one request and keeps reading,
\* no timeout expires, the server is not shut down.
InitResponse == Plain /\ InitConnection /\ scope = "response"
InitRequest == Plain /\ InitConnection /\ scope = "request"
InitStatus == Plain /\ InitConnection /\ scope = "status"

NextResponse ==
    \/ http1_loop
    \/ http1_request_header
    \/ \E r \in Responses : HandlerRespond(r)
    \/ \E d \in Datas, e \in BOOLEAN : HandlerSend(d, e)
    \/ HandlerRead
    \/ HandlerRaise
    \/ HandlerReturn
    \/ DrainCheck
    \/ ReadNone
    \/ http1_except
    \/ http1_loop_end
    \/ connection_task_exit
    \/ data_received

NextRequest ==
    \/ http1_loop
    \/ http1_request_header
    \/ \E r \in Responses : HandlerRespond(r)
    \/ \E d \in Datas, e \in BOOLEAN : HandlerSend(d, e)
    \/ HandlerRead
    \/ HandlerRaise
    \/ HandlerReturn
    \/ DrainCheck
    \/ ReadChunkHeader
    \/ ReadData
    \/ ReadNone
    \/ http1_except
    \/ http1_loop_end
    \/ connection_task_exit
    \/ data_received

SpecResponse == InitResponse /\ [][NextResponse]_vars
SpecStatus == InitStatus /\ [][NextResponse]_vars
SpecRequest == InitRequest /\ [][NextRequest]_vars

\* ------------------------------------------------------ with a clock
InitTime ==
    /\ keep_alive_timeout \in 1..MaxTimeout
    /\ request_timeout = keep_alive_timeout + 1
    /\ response_timeout = request_timeout + 1
    /\ inbound = <<>> /\ first = <<>>
    /\ graceful = 0 /\ websocket = FALSE
    /\ InitConnection /\ scope = "timing"

NextTime ==
    \/ Tick
    \/ check_timeouts
    \/ data_received
    \/ http1_loop
    \/ http1_request_header
    \/ \E r \in Responses : HandlerRespond(r)
    \/ \E d \in Datas, e \in BOOLEAN : HandlerSend(d, e)
    \/ HandlerRaise
    \/ HandlerReturn
    \/ DrainCheck
    \/ http1_except
    \/ http1_loop_end
    \/ connection_task_exit
    \/ cancelled

SpecTime == InitTime /\ [][NextTime]_vars

\* ------------------------------------------------- reading the transport
RECURSIVE Count(_, _)
\* how many times x occurs in the sequence w
Count(x, w) == IF w = <<>> THEN 0 ELSE (IF Head(w) = x THEN 1 ELSE 0) + Count(x, Tail(w))

RECURSIVE BodyOf(_)
\* what follows the response head in w (nothing if w holds no head)
BodyOf(w) == IF w = <<>> THEN <<>> ELSE IF Head(w) = HEAD THEN Tail(w) ELSE BodyOf(Tail(w))

\* the value of a hexadecimal digit, -1 for any other byte
HexValue(c) ==
    CASE c = "0" -> 0 [] c = "1" -> 1 [] c = "2" -> 2 [] c = "3" -> 3
      [] c = "4" -> 4 [] c = "5" -> 5 [] c = "6" -> 6 [] c = "7" -> 7
      [] c = "8" -> 8 [] c = "9" -> 9 [] c = "a" -> 10 [] c = "b" -> 11
      [] c = "c" -> 12 [] c = "d" -> 13 [] c = "e" -> 14 [] c = "f" -> 15
      [] OTHER -> -1

RECURSIVE SizeLine(_, _, _)
\* a client reads a chunk-size line: hex digits (n digits read so far, of value
\* acc) up to CR LF; the size and what follows the line, or size -1
SizeLine(w, acc, n) ==
    IF w = <<>> THEN [size |-> -1, rest |-> <<>>]
    ELSE IF HexValue(Head(w)) >= 0 THEN SizeLine(Tail(w), 16 * acc + HexValue(Head(w)), n + 1)
    ELSE IF n > 0 /\ Len(w) >= 2 /\ w[1] = CR /\ w[2] = LF
         THEN [size |-> acc, rest |-> SubSeq(w, 3, Len(w))]
         ELSE [size |-> -1, rest |-> <<>>]

RECURSIVE Dechunk(_, _, _)
\* a client decodes the chunked body w (RFC 7230, 4.1): ok when w is a series
\* of chunks closed by one last-chunk with nothing after it; data the decoded
\* bytes (so far: acc), chunks the number of data chunks (so far: n)
Dechunk(w, acc, n) ==
    LET line == SizeLine(w, 0, 0)
        size == line.size
        rest == line.rest
    IN  IF size < 0 THEN [ok |-> FALSE, data |-> acc, chunks |-> n]
        ELSE IF size = 0
             THEN [ok |-> rest = <<CR, LF>>, data |-> acc, chunks |-> n]
             ELSE IF Len(rest) >= size + 2 /\ rest[size + 1] = CR /\ rest[size + 2] = LF
                  THEN Dechunk(SubSeq(rest, size + 3, Len(rest)),
                               acc \o SubSeq(rest, 1, size), n + 1)
                  ELSE [ok |-> FALSE, data |-> acc, chunks |-> n]

\* ------------------------------------------- the receive buffer, in bytes
\* A request line or a header name with its ": " is one byte of the model
\* ("GET" is `GET / HTTP/1.1`, "CL" is `content-length: `, "TE" is
\* `transfer-encoding: chunked`, "H" some other header); values, line ends
\* and bodies are spelt out.
RequestLines == {"GET", "POST"}
HeaderNames == {"CL", "TE", "H"}
CRLF == <<CR, LF>>

Take(buf, n) == SubSeq(buf, 1, n)
Drop(buf, n) == SubSeq(buf, n + 1, Len(buf))

RECURSIVE Find(_, _, _)
\* bytearray.find(pat, start): index from 0, or -1
Find(buf, pat, start) ==
    IF start + Len(pat) > Len(buf) THEN -1
    ELSE IF SubSeq(buf, start + 1, start + Len(pat)) = pat THEN start
    ELSE Find(buf, pat, start + 1)

RECURSIVE SplitLines(_)
\* str.split("\r\n")
SplitLines(b) ==
    LET p == Find(b, CRLF, 0)
    IN  IF p = -1 THEN <<b>> ELSE <<Take(b, p)>> \o SplitLines(Drop(b, p + 2))

RECURSIVE Digits(_, _, _)
\* the value of the digits b in the base, after acc; -1 if one is no digit
Digits(b, base, acc) ==
    IF b = <<>> THEN acc
    ELSE IF HexValue(Head(b)) < 0 \/ HexValue(Head(b)) >= base THEN -1
    ELSE Digits(Tail(b), base, base * acc + HexValue(Head(b)))

RECURSIVE Strip(_)
\* str.strip() of the white space that int() ignores
Strip(b) ==
    IF b # <<>> /\ Head(b) \in {CR, LF} THEN Strip(Tail(b))
    ELSE IF b # <<>> /\ b[Len(b)] \in {CR, LF} THEN Strip(Take(b, Len(b) - 1))
    ELSE b

\* int(b, base): ok is false where Python raises ValueError
ParseInt(b, base) ==
    LET t == Strip(b)
        neg == t # <<>> /\ Head(t) = "-"
        d == IF neg THEN Tail(t) ELSE t
        v == IF d = <<>> THEN -1 ELSE Digits(d, base, 0)
    IN  [ok |-> v >= 0, val |-> IF neg THEN 0 - v ELSE v]

\* bytes.split(b";", 1)[0]
BeforeSemicolon(b) ==
    LET p == Find(b, <<";">>, 0) IN IF p = -1 THEN b ELSE Take(b, p)

\* Http.http1_request_header, lines 115-134: the header block as the parser
\* sees it.  The request line must split into three words, each further line
\* at a colon; a prefix without a space only changes the method.
ParseHeader(block) ==
    LET lines == SplitLines(block)
        reqline == Head(lines)
        hl == Tail(lines)
        names == {hl[i][1] : i \in {j \in 1..Len(hl) : hl[j] # <<>>}}
        cls == {i \in 1..Len(hl) : hl[i] # <<>> /\ hl[i][1] = "CL"}
    IN  [reqline |-> /\ reqline # <<>>
                     /\ reqline[Len(reqline)] \in RequestLines
                     /\ \A i \in 1..(Len(reqline) - 1) :
                            reqline[i] \notin RequestLines \cup HeaderNames,
         headers |-> \A i \in 1..Len(hl) : hl[i] # <<>> /\ hl[i][1] \in HeaderNames,
         body |-> names \cap {"CL", "TE"} # {},
         chunked |-> "TE" \in names,
         length |-> IF cls = {} THEN <<>>
                    ELSE Tail(hl[CHOOSE i \in cls : \A j \in cls : i <= j])]

\* the longest chunk-size line that read() waits for
ChunkLineMax == 64

\* the protocol but for its buffer, its request counter and _time
link_vars == <<scope, serve_vars, clock_vars, transport, closing, can_write, task, cancel_pending,
               watchdog, lost>>

\* HttpProtocol.data_received: the next n bytes of the peer arrive
data_received_bytes(n) ==
    /\ Callback /\ ~cancel_pending
    /\ transport = "set" /\ ~closing
    /\ n \in 1..Len(inbound)
    /\ time' = now
    /\ recv_buffer' = recv_buffer \o Take(inbound, n)
    /\ inbound' = Drop(inbound, n)
    /\ pc' = CASE pc = "recv_header" -> "request_header"
               [] pc = "read_wait" -> "read_body"
               [] pc = "wait_next" -> "loop_top"
               [] OTHER -> pc
    /\ received' = (received \/ pc \in {"recv_header", "wait_next"})
    /\ UNCHANGED <<http_vars, link_vars, requests_count, pos, total_request_size, first,
                   delivered, ret, pending, reader, exc, wire, hdr, request, read_first,
                   passed, passed_valid, sent, nsend, nerr, err_used>>

\* Http.http1_request_header on the bytes of the buffer
request_header_bytes ==
    LET found == IF recv_buffer = <<>> THEN -1 ELSE Find(recv_buffer, CRLF \o CRLF, pos)
        p == ParseHeader(Take(recv_buffer, found))
        len == ParseInt(p.length, 10)
        cut == IF p.body /\ p.chunked THEN found + 2 ELSE found + 4
    IN  /\ pc = "request_header"
        /\ IF Len(recv_buffer) >= request_max_size
           THEN /\ Raise("PayloadTooLarge", "try") /\ pos' = 0
                /\ UNCHANGED <<recv_buffer, keep_alive, head_only, requests_count,
                               request_chunked, request_bytes_left, stage, request>>
           ELSE IF found < 0
           THEN /\ pos' = IF recv_buffer = <<>> THEN pos ELSE Max(0, Len(recv_buffer) - 3)
                /\ pc' = "recv_header"
                /\ UNCHANGED <<recv_buffer, keep_alive, head_only, requests_count,
                               request_chunked, request_bytes_left, stage, request, exc>>
           ELSE IF ~p.reqline \/ ~p.headers
           THEN /\ Raise("InvalidUsage", "try") /\ pos' = 0
                /\ keep_alive' = IF p.reqline THEN TRUE ELSE keep_alive
                /\ head_only' = IF p.reqline THEN FALSE ELSE head_only
                /\ UNCHANGED <<recv_buffer, requests_count, request_chunked,
                               request_bytes_left, stage, request>>
           ELSE /\ keep_alive' = TRUE /\ head_only' = FALSE /\ pos' = 0
                /\ requests_count' = requests_count + 1
                /\ request' = [expect |-> "none", body |-> p.body]
                /\ request_chunked' = (p.body /\ p.chunked)
                /\ IF p.body /\ ~p.chunked /\ ~len.ok
                   THEN /\ Raise("ValueError", "try")
                        /\ request_bytes_left' = 0
                        /\ UNCHANGED <<recv_buffer, stage>>
                   ELSE /\ request_bytes_left' = IF p.body /\ ~p.chunked THEN len.val ELSE 0
                        /\ recv_buffer' = Drop(recv_buffer, cut)
                        /\ stage' = HANDLER
                        /\ pc' = "handler" /\ exc' = "None"
        /\ received' = IF pc' = "recv_header" THEN received ELSE FALSE
        /\ delivered' = IF pc' = "handler" THEN <<>> ELSE delivered
        /\ UNCHANGED <<idle_from, expecting_continue, response, response_func,
                       response_bytes_left, exception, link_vars, time, inbound,
                       total_request_size, first, ret, pending, reader, wire, hdr,
                       read_first, passed, passed_valid, sent, nsend, nerr, err_used>>

\* where read() returns to
ReadReturns(data) == IF reader = "handler" THEN "handler"
                     ELSE IF data = <<>> THEN "loop_end" ELSE "read_body"

\* Http.read, lines 317-337, on the bytes of the buffer: a chunk-size line
\* \r\n<size>[;<extensions>]\r\n
read_chunk_header_bytes ==
    LET found == Find(recv_buffer, CRLF, 3)
        size == ParseInt(BeforeSemicolon(SubSeq(recv_buffer, 3, found)), 16)
        fails == IF found = -1 THEN Len(recv_buffer) > ChunkLineMax ELSE ~size.ok
    IN  /\ pc = "read_body" /\ request_chunked /\ request_bytes_left = 0
        /\ IF found = -1 /\ ~fails
           THEN /\ pc' = "read_wait"
                /\ UNCHANGED <<exc, reader, keep_alive, request_bytes_left, request_chunked,
                               recv_buffer, total_request_size>>
           ELSE IF fails
           THEN /\ keep_alive' = FALSE
                /\ Raise("InvalidUsage", Where("read_body", reader)) /\ reader' = "none"
                /\ UNCHANGED <<request_bytes_left, request_chunked, recv_buffer,
                               total_request_size>>
           ELSE IF total_request_size = NoSize
           THEN /\ request_bytes_left' = size.val
                /\ Raise("AttributeError", Where("read_body", reader)) /\ reader' = "none"
                /\ UNCHANGED <<keep_alive, request_chunked, recv_buffer, total_request_size>>
           ELSE /\ request_bytes_left' = size.val
                /\ total_request_size' = total_request_size + found + 2
                /\ recv_buffer' = Drop(recv_buffer, found + 2)
                /\ request_chunked' = (size.val > 0)
                /\ pc' = IF size.val > 0 THEN "read_body" ELSE ReadReturns(<<>>)
                /\ reader' = IF size.val > 0 THEN reader ELSE "none"
                /\ exc' = "None"
                /\ UNCHANGED keep_alive
        /\ UNCHANGED <<stage, idle_from, head_only, expecting_continue, response,
                       response_func, response_bytes_left, exception, link_vars, time,
                       requests_count, inbound, pos, first, delivered, ret, pending,
                       obs_vars>>

\* Http.read, lines 339-350, on the bytes of the buffer: body bytes
read_data_bytes ==
    LET n == IF request_bytes_left >= 0 THEN Min(request_bytes_left, Len(recv_buffer))
             ELSE Max(0, Len(recv_buffer) + request_bytes_left)
        data == Take(recv_buffer, n)
        total == total_request_size + n
    IN  /\ pc = "read_body" /\ ~(request_chunked /\ request_bytes_left = 0)
        /\ request_bytes_left # 0
        /\ IF recv_buffer = <<>>
           THEN /\ pc' = "read_wait"
                /\ UNCHANGED <<exc, reader, keep_alive, request_bytes_left, recv_buffer,
                               total_request_size, delivered>>
           ELSE /\ recv_buffer' = Drop(recv_buffer, n)
                /\ request_bytes_left' = request_bytes_left - n
                /\ IF total_request_size = NoSize
                   THEN /\ Raise("AttributeError", Where("read_body", reader))
                        /\ reader' = "none"
                        /\ UNCHANGED <<keep_alive, total_request_size, delivered>>
                   ELSE /\ total_request_size' = total
                        /\ IF total > request_max_size
                           THEN /\ keep_alive' = FALSE
                                /\ Raise("PayloadTooLarge", Where("read_body", reader))
                                /\ reader' = "none"
                                /\ UNCHANGED delivered
                           ELSE /\ delivered' = delivered \o data
                                /\ pc' = ReadReturns(data) /\ exc' = "None"
                                /\ reader' = IF pc' = "read_body" THEN reader ELSE "none"
                                /\ UNCHANGED keep_alive
        /\ UNCHANGED <<stage, idle_from, head_only, expecting_continue, request_chunked,
                       response, response_func, response_bytes_left, exception, link_vars,
                       time, requests_count, inbound, pos, first, ret, pending, obs_vars>>

\* the requests of the peer
GetRequest == <<"GET">> \o CRLF \o CRLF
PostLength(length, body) == <<"POST">> \o CRLF \o <<"CL">> \o length \o CRLF \o CRLF \o body
PostChunked(body) == <<"POST">> \o CRLF \o <<"TE">> \o CRLF \o CRLF \o body
\* a chunk as a client sends it, with a chunk extension
ClientChunk(data, ext) == Hex(Len(data)) \o ext \o CRLF \o data \o CRLF
ClientLast == <<"0">> \o CRLF \o CRLF
\* a chunk extension that takes the chunk-size line past ChunkLineMax
LongExtension == <<";">> \o [i \in 1..ChunkLineMax |-> "e"]
\* a header block longer than request_max_size
LongHeader ==
    <<"GET">> \o CRLF \o [i \in 1..(3 * request_max_size) |-> <<"H", CR, LF>>[((i - 1) % 3) + 1]]
    \o CRLF

\* a well-formed chunked request, and one with an over-long chunk-size line
ChunkedRequest == PostChunked(ClientChunk(<<"x">>, <<>>) \o ClientLast)
LongLineRequest == PostChunked(ClientChunk(<<"x">>, LongExtension) \o ClientLast)

Firsts ==
    {GetRequest,
     PostLength(<<"1">>, <<"x">>),
     PostLength(<<"-", "1">>, <<>>),
     ChunkedRequest,
     LongLineRequest,
     LongHeader}

InitBuffer ==
    /\ keep_alive_timeout = 1 /\ request_timeout = 2 /\ response_timeout = 3
    /\ first \in Firsts
    /\ inbound \in {first, first \o GetRequest}
    /\ graceful = 0 /\ websocket = FALSE
    /\ InitConnection /\ scope = "buffer"

NextBuffer ==
    \/ \E n \in 1..Len(inbound) : data_received_bytes(n)
    \/ http1_loop
    \/ request_header_bytes
    \/ \E r \in Responses : HandlerRespond(r)
    \/ \E d \in Datas, e \in BOOLEAN : HandlerSend(d, e)
    \/ HandlerRead
    \/ HandlerRaise
    \/ HandlerReturn
    \/ DrainCheck
    \/ read_chunk_header_bytes
    \/ read_data_bytes
    \/ ReadNone
    \/ http1_except
    \/ http1_loop_end
    \/ connection_task_exit

SpecBuffer == InitBuffer /\ [][NextBuffer]_vars

\* ------------------------------------------------------ the worker stops
\* A double x >= 0 that is a multiple of 2^-56 is the pair <<hi, lo>> with
\* x = (hi * Word + lo) * 2^-56 and lo < Word.
Word == 2 ^ 28

\* the double 0.1 (0x3FB999999999999A)
Tenth == <<26843545, 161061274>>

\* float(k / 10) for k = 0, 1, ...: the values of GRACEFUL_SHUTDOWN_TIMEOUT
GracefulTimeouts ==
    << <<0, 0>>, <<26843545, 161061274>>, <<53687091, 53687092>>,
       <<80530636, 214748364>>, <<107374182, 107374184>>, <<134217728, 0>>,
       <<161061273, 161061272>>, <<187904819, 53687088>>, <<214748364, 214748368>>,
       <<241591910, 107374184>>, <<268435456, 0>>, <<295279001, 161061280>>,
       <<322122547, 53687088>> >>

RECURSIVE Ulp(_)
\* the unit in the last place of a double with high word hi, in units of
\* 2^-56: 53 significant bits
Ulp(hi) == IF hi < 33554432 THEN 1 ELSE 2 * Ulp(hi \div 2)

\* x rounded to 53 significant bits, to nearest, ties to even
RoundDouble(x) ==
    LET ulp == Ulp(x[1])
        r == x[2] % ulp
        up == 2 * r > ulp \/ (2 * r = ulp /\ (x[2] \div ulp) % 2 = 1)
        lo == x[2] - r + (IF up THEN ulp ELSE 0)
    IN  IF lo = Word THEN <<x[1] + 1, 0>> ELSE <<x[1], lo>>

\* a + b of two doubles
DoubleAdd(a, b) ==
    LET lo == a[2] + b[2]
    IN  RoundDouble(IF lo >= Word THEN <<a[1] + b[1] + 1, lo - Word>>
                    ELSE <<a[1] + b[1], lo>>)

\* a < b of two doubles
DoubleLess(a, b) == a[1] < b[1] \/ (a[1] = b[1] /\ a[2] < b[2])

\* the event loop runs: inside run_forever or run_until_complete
LoopRuns == serve \in {"run_forever", "wait_closed", "sleep", "gather"}

\* the set `connections` holds the connection until connection_lost
InConnections == ~lost

\* the connection and the worker's flag, untouched by a step of serve()
serve_frame ==
    UNCHANGED <<http_vars, scope, time, clock_vars, buf_vars, can_write, task,
                cancel_pending, watchdog, lost, requests_count, co_vars, obs_vars,
                graceful, websocket>>

\* serve, lines 470-478: the loop was stopped, the listening server is closed
serve_stop ==
    /\ serve = "run_forever" /\ Callback
    /\ serve' = "wait_closed"
    /\ serve_frame
    /\ UNCHANGED <<transport, closing, stopped, start_shutdown, polls, coros>>

\* serve, line 479: http_server.wait_closed() is done
serve_wait_closed ==
    /\ serve = "wait_closed" /\ Callback
    /\ serve' = "signal"
    /\ serve_frame
    /\ UNCHANGED <<transport, closing, stopped, start_shutdown, polls, coros>>

\* serve, line 482
serve_signal ==
    /\ serve = "signal"
    /\ stopped' = TRUE
    /\ serve' = "close_if_idle"
    /\ serve_frame
    /\ UNCHANGED <<transport, closing, start_shutdown, polls, coros>>

\* serve, lines 483-491: close_if_idle() on every connection of the set
serve_close_if_idle ==
    /\ serve = "close_if_idle"
    /\ IF InConnections /\ close_if_idle_returns THEN close
       ELSE UNCHANGED <<transport, closing>>
    /\ start_shutdown' = <<0, 0>>
    /\ serve' = "while"
    /\ serve_frame
    /\ UNCHANGED <<stopped, polls, coros>>

\* serve, line 492: the test of the wait loop
serve_while ==
    /\ serve = "while"
    /\ serve' = IF InConnections /\ DoubleLess(start_shutdown, GracefulTimeouts[graceful + 1])
                THEN "sleep" ELSE "force"
    /\ serve_frame
    /\ UNCHANGED <<transport, closing, stopped, start_shutdown, polls, coros>>

\* serve, lines 493-494: asyncio.sleep(0.1) is over
serve_sleep ==
    /\ serve = "sleep" /\ Callback
    /\ start_shutdown' = DoubleAdd(start_shutdown, Tenth)
    /\ polls' = polls + 1
    /\ serve' = "while"
    /\ serve_frame
    /\ UNCHANGED <<transport, closing, stopped, coros>>

\* serve, lines 498-505: the connections left in the set are closed, or the
\* closing handshake of their websocket is started
serve_force ==
    /\ serve = "force"
    /\ IF InConnections /\ ~websocket THEN close ELSE UNCHANGED <<transport, closing>>
    /\ coros' = IF InConnections /\ websocket THEN "pending" ELSE coros
    /\ serve' = "gather"
    /\ serve_frame
    /\ UNCHANGED <<stopped, start_shutdown, polls>>

\* conn.websocket.close_connection(), awaited by the gather of line 506, ends
\* with the transport closed
close_connection ==
    /\ serve = "gather" /\ coros = "pending" /\ Callback
    /\ coros' = "done"
    /\ close
    /\ serve_frame
    /\ UNCHANGED <<serve, stopped, start_shutdown, polls>>

\* serve, lines 506-510: the gather is done, the loop is closed
serve_close ==
    /\ serve = "gather" /\ coros # "pending" /\ Callback
    /\ serve' = "closed"
    /\ serve_frame
    /\ UNCHANGED <<transport, closing, stopped, start_shutdown, polls, coros>>

InitServe ==
    /\ keep_alive_timeout = 1 /\ request_timeout = 2 /\ response_timeout = 3
    /\ inbound = <<>> /\ first = <<>>
    /\ graceful \in 0..MaxGraceful /\ websocket \in BOOLEAN
    /\ InitConnection /\ scope = "shutdown"

\* what the connection does while the loop runs
ConnectionRuns ==
    /\ LoopRuns
    /\ \/ http1_loop
       \/ http1_request_header
       \/ \E r \in Responses : HandlerRespond(r)
       \/ \E d \in Datas, e \in BOOLEAN : HandlerSend(d, e)
       \/ HandlerRaise
       \/ HandlerReturn
       \/ DrainCheck
       \/ http1_except
       \/ http1_loop_end
       \/ connection_task_exit
       \/ cancelled
       \/ data_received
       \/ peer_lost
       \/ connection_lost

NextServe ==
    \/ ConnectionRuns
    \/ serve_stop
    \/ serve_wait_closed
    \/ serve_signal
    \/ serve_close_if_idle
    \/ serve_while
    \/ serve_sleep
    \/ serve_force
    \/ close_connection
    \/ serve_close

SpecServe == InitServe /\ [][NextServe]_vars

\* ------------------------------------------------- under fair scheduling
\* transport.write calls pause_writing when its buffer passes the high-water
\* mark: bytes were written on the connection and the peer does not read them
pause_writing_full ==
    /\ wire # <<>> \/ requests_count >= 2
    /\ pause_writing

\* the steps that the event loop owes the connection task: a coroutine that
\* is ready runs, a cancellation is thrown into the coroutine it was asked for
TaskRuns ==
    \/ http1_loop
    \/ http1_request_header
    \/ DrainCheck
    \/ ReadChunkHeader
    \/ ReadData
    \/ ReadNone
    \/ http1_except
    \/ http1_loop_end
    \/ connection_task_exit
    \/ send_resume
    \/ cancelled

\* The peer sends, reads or stops reading, and disconnects as it likes; the
\* handler does what it likes until it is cancelled.
NextLive ==
    \/ Engine
    \/ data_received
    \/ pause_writing_full
    \/ resume_writing
    \/ check_timeouts
    \/ peer_lost
    \/ connection_lost

\* The loop also calls connection_lost for a transport that is closing, and
\* a writer that waits at the gate goes on once the gate was opened, even if
\* it is cleared again before the writer runs (asyncio.Event wakes its waiters).
SpecLive ==
    /\ Init /\ [][NextLive]_vars
    /\ WF_vars(TaskRuns) /\ WF_vars(connection_lost) /\ SF_vars(send_resume)

\* ------------------------------------------------------------------ claims
\* C1: the engine begins to read the next request (the top of the loop of
\* http1, or its wait for more data) only with stage IDLE and keep_alive
\* true; a request is parsed only while the exchange has written nothing; at
\* the end of an exchange with another stage or without keep_alive the loop
\* is left, and once left no request is parsed on the connection.
C1_OneRequestInFlight ==
    /\ [](pc \in {"loop_top", "wait_next"} => stage = IDLE /\ keep_alive)
    /\ [][/\ pc' = "request_header" /\ pc = "loop_top" => stage = IDLE /\ keep_alive
          /\ requests_count' # requests_count =>
                 /\ requests_count' = requests_count + 1
                 /\ pc = "request_header" /\ stage = REQUEST /\ wire = <<>>
          /\ pc = "loop_end" /\ (stage # IDLE \/ ~keep_alive) => pc' = "exit"
          /\ pc \in {"exit", "done"} =>
                 pc' \in {"exit", "done"} /\ requests_count' = requests_count]_vars

\* a second request was parsed on the connection and its handler runs
C1_Witness == requests_count = 2 /\ pc = "handler" /\ stage = HANDLER

\* C2: with a content-length L in the response head (and a request that is
\* not HEAD) the body bytes written never number more than L, and the stage
\* is IDLE again only with exactly L of them written.
C2_ContentLength ==
    hdr # NoHead /\ hdr.cl # NoCL /\ ~head_only =>
        /\ Len(BodyOf(wire)) <= hdr.cl
        /\ stage = IDLE => Len(BodyOf(wire)) = hdr.cl

\* C3 as the specification states it: whenever a response that was started
\* chunked has been ended, the body bytes written decode as chunks closed by
\* one terminator, to the concatenation of the data passed to send().
C3_ChunkedAnyRequest ==
    hdr.te /\ stage = IDLE =>
        LET d == Dechunk(BodyOf(wire), <<>>, 0) IN d.ok /\ d.data = sent

\* C3: for a request that is not HEAD, whenever a response that was started
\* chunked has been ended, the body bytes written decode as chunks of
\* non-zero size closed by exactly one terminator, to the concatenation of
\* the data passed to send().
C3_Chunked ==
    hdr.te /\ stage = IDLE /\ ~head_only =>
        LET d == Dechunk(BodyOf(wire), <<>>, 0) IN d.ok /\ d.data = sent

\* a chunked response of two chunks, one of them LongData bytes, was ended
C3_Witness ==
    /\ hdr.te /\ stage = IDLE /\ ~head_only
    /\ Dechunk(BodyOf(wire), <<>>, 0).chunks = 2 /\ Len(sent) > LongData

\* a send with end_stream: by the handler, or by http1 when the handler returns
SendEnd == (\E data \in Datas : HandlerSend(data, TRUE)) \/ (HandlerReturn /\ stage = RESPONSE)

\* C4: for a HEAD request no body byte follows the response head on the
\* transport, and a send with end_stream that returns leaves stage IDLE.
C4_HeadOnly ==
    /\ [](head_only /\ hdr # NoHead => BodyOf(wire) = <<>>)
    /\ [][head_only /\ SendEnd /\ exc' = "None" => stage' = IDLE]_vars

\* a HEAD request was answered by a streamed response with data, now ended
C4_Witness ==
    head_only /\ hdr # NoHead /\ nsend = MaxSends /\ sent # <<>> /\ stage = IDLE /\ wire # <<>>

\* the request of this exchange carries Expect: 100-continue
Expects == request.expect = "100-continue"

\* where the interim response stands on the transport of the exchange of a
\* request for which expected holds
Continue(expected) ==
    /\ Count(CONT, wire) <= 1
    /\ expected /\ read_first => wire # <<>> /\ wire[1] = CONT
    /\ expected /\ ~read_first /\ hdr # NoHead /\ hdr.res.status # 417 =>
           Len(wire) >= 2 /\ wire[1] = CONT /\ wire[2] = HEAD
    /\ expected /\ ~read_first /\ hdr # NoHead /\ hdr.res.status = 417 =>
           Count(CONT, wire) = 0

C6_LastPassed == hdr # NoHead => hdr.res = passed

\* C6: respond(r) in stage HANDLER with a status that is an integer >= 200
\* registers r, leaves the stage HANDLER and writes nothing, and the head that
\* send() frames is that of the last such r; with another status it raises
\* RuntimeError and changes nothing; in any other stage it sets the stage to
\* FAILED and raises RuntimeError, without registering r.
C6_Respond ==
    /\ [](hdr # NoHead => hdr.res = passed_valid)
    /\ [][pc = "handler" /\ hdr' = hdr /\ sent' = sent /\ nsend' = nsend =>
            \A r \in Responses : HandlerRespond(r) =>
                /\ wire' = wire /\ response_func' = response_func
                /\ IF stage = HANDLER
                   THEN /\ stage' = HANDLER
                        /\ IF r.status >= 200 THEN response' = r /\ exc' = "None"
                           ELSE response' = response /\ exc' = "RuntimeError"
                   ELSE stage' = FAILED /\ response' = response
                        /\ exc' = "RuntimeError"]_vars

\* a registered response was framed and a later respond() failed
C6_Witness == hdr # NoHead /\ hdr.res = passed_valid /\ stage = FAILED /\ exc = "RuntimeError"

\* C7: once the stage is FAILED no step changes it.
C7_FailedTerminal == [][stage = FAILED => stage' = FAILED]_vars

\* C8: a send() on a fixed-length response that raises ServerError leaves the
\* stage FAILED.
C8_FramingFailed ==
    [][response_func = "normal" /\ exc # "ServerError" /\ exc' = "ServerError" =>
           stage' = FAILED]_vars

\* C9: the error path (http1_except) from stage REQUEST or HANDLER frames
\* exactly one error response, that of handle_exception for the error, with
\* end_stream (stage IDLE) and hands it to the driver; from REQUEST it turns
\* keep_alive off; from IDLE, RESPONSE or FAILED it writes nothing, turns
\* keep_alive off and the loop is left; keep_alive stays true only from stage
\* HANDLER, where an error other than a cancellation leaves it as it is; a
\* loop left ends in the close of the connection.
C9_ErrorPath ==
    /\ [](nerr <= 1)
    /\ [](pc = "done" => transport = "None" /\ closing)
    /\ [][/\ pc = "except" /\ stage \in {REQUEST, HANDLER} =>
                /\ nerr' = nerr + 1 /\ stage' = IDLE
                /\ hdr' # NoHead /\ hdr'.res = handle_exception(err_used')
                /\ \/ wire' # wire /\ wire'[Len(wire')] # CONT
                   \/ pc' = "blocked" /\ pending' # <<>>
                   \/ pc' = "exit" /\ exc' \in {"AttributeError", "CancelledError"}
          /\ pc = "except" /\ stage = REQUEST => ~keep_alive'
          /\ pc = "except" /\ stage \in {IDLE, RESPONSE, FAILED} =>
                /\ wire' = wire /\ nerr' = nerr /\ hdr' = hdr /\ stage' = stage
                /\ ~keep_alive' /\ pc' = "loop_end"
          /\ pc = "except" /\ keep_alive' => stage = HANDLER /\ keep_alive
          /\ pc = "except" /\ stage = HANDLER /\ exc # "CancelledError" =>
                keep_alive' = keep_alive
          /\ pc = "loop_end" /\ ~keep_alive => pc' = "exit"
          /\ pc = "exit" => pc' = "done"]_vars

\* an error in mid-response: nothing was written for it and the connection closed
C9_Witness ==
    /\ pc = "done" /\ stage = RESPONSE /\ ~keep_alive /\ nerr = 0
    /\ err_used = "HandlerError" /\ hdr # NoHead

\* a CancelledError is thrown into the engine's coroutine
CancelDelivered == cancel_pending /\ ~cancel_pending' /\ pc \in SuspendPoints

\* the coroutine is suspended inside the try block of http1
InTry == pc \in {"recv_header", "handler", "read_wait"} \/ (pc = "blocked" /\ ret # "loop_end")

\* how http1 handles a cancellation that its except clause caught
CancelHandled ==
    /\ pc = "except" /\ exc = "CancelledError" =>
          /\ err_used' = (IF exception # "None" THEN exception
                          ELSE "ServiceUnavailable(Cancelled)")
          /\ exception' = "None" /\ ~keep_alive'
          /\ nerr' <= nerr + 1 /\ nerr' <= 1
          /\ pc' \in {"loop_end", "blocked", "exit"}
    /\ pc = "blocked" /\ ret = "loop_end" => pc' \in {"blocked", "loop_end", "exit"}
    /\ pc = "loop_end" /\ ~keep_alive => pc' = "exit"
    /\ pc = "exit" => pc' = "done" /\ transport' = "None" /\ closing'
    /\ pc \in {"exit", "done"} => requests_count' = requests_count

\* C10 as the specification states it: every cancellation thrown into the
\* running engine is caught by the except clause of http1, which handles it.
C10_CancelledAnywhere ==
    [][(CancelDelivered => pc' = "except" /\ exc' = "CancelledError") /\ CancelHandled]_vars

\* C10: a cancellation thrown into the engine while it is suspended inside
\* the try block of http1 is caught there and handled as one event: the error
\* used is the attached exception if one is set, else
\* ServiceUnavailable("Cancelled"), the attached exception is cleared,
\* keep_alive is false, at most one error response is attempted, the loop is
\* left, the connection is closed and no further request is parsed; thrown
\* elsewhere (the wait for the next request, the write of an error response)
\* it ends the task without any of this, and the connection is closed.
C10_Cancelled ==
    [][/\ CancelDelivered /\ InTry => pc' = "except" /\ exc' = "CancelledError"
       /\ CancelDelivered /\ ~InTry =>
              /\ pc' = "exit" /\ wire' = wire /\ nerr' = nerr
              /\ UNCHANGED <<keep_alive, exception, err_used>>
       /\ CancelHandled]_vars

\* the request timed out: the 408 of the attached exception went out, once,
\* and the connection is closed
C10_Witness ==
    /\ pc = "done" /\ err_used = "RequestTimeout" /\ nerr = 1 /\ exception = "None"
    /\ ~keep_alive /\ hdr.res.status = 408 /\ wire # <<>> /\ transport = "None"

\* ---------------------------------------------------------- the watchdog
\* C11: each run of check_timeouts while the task exists does one of two
\* things: when the timeout of the stage has not expired it schedules itself
\* once and touches nothing else; when it has expired it cancels the task,
\* is not scheduled again, and has attached nothing in stage IDLE,
\* RequestTimeout in stage REQUEST and ServiceUnavailable("Response
\* Timeout") in the later stages.  At most one callback is ever pending.
C11_Watchdog ==
    /\ [](watchdog \in {0, 1})
    /\ [][check_timeouts /\ task = "running" =>
            IF now - time > Timeout
            THEN /\ cancel_pending' /\ watchdog' = 0 /\ task' = task
                 /\ exception' = CASE stage = IDLE -> exception
                                   [] stage = REQUEST -> "RequestTimeout"
                                   [] OTHER -> "ServiceUnavailable(Response Timeout)"
            ELSE /\ watchdog' = 1 /\ due' = now + WatchdogInterval
                 /\ cancel_pending' = cancel_pending /\ exception' = exception
       ]_vars

\* the watchdog has cancelled a task whose handler took too long
C11_Witness ==
    /\ cancel_pending /\ watchdog = 0 /\ task = "running"
    /\ stage \in {HANDLER, RESPONSE} /\ now - time > 2 * response_timeout
    /\ exception = "ServiceUnavailable(Response Timeout)"

\* C12: a connection that waits for a request and has received no byte of
\* it, be it freshly accepted or kept alive between two requests, is in
\* stage IDLE (and so under keep_alive_timeout, closed without a response)
C12_WaitingIsIdle ==
    (pc \in {"recv_header", "wait_next"} /\ ~received /\ task = "running") => stage = IDLE

\* C13 as stated: a connection in stage IDLE whose task is not cancelled yet
\* has been without activity for at most keep_alive_timeout plus one
\* watchdog interval, max(0.1 s, min(timeouts)/2)
C13_IdleCancelled ==
    (stage = IDLE /\ task = "running" /\ ~cancel_pending) =>
        now - time <= 2 * keep_alive_timeout
                      + Max(2, Min(keep_alive_timeout, Min(request_timeout, response_timeout)))

\* C13: with keep_alive_timeout < request_timeout < response_timeout, a
\* connection that has been in stage IDLE since its last activity has its
\* task cancelled no later than keep_alive_timeout plus one watchdog
\* interval after that activity, wherever the watchdog was in its period;
\* one that became IDLE later is cancelled within one interval of that
C13_IdleSinceActivity ==
    (stage = IDLE /\ task = "running" /\ ~cancel_pending) =>
        now <= Max(time + 2 * keep_alive_timeout, idle_from)
               + Max(2, Min(keep_alive_timeout, Min(request_timeout, response_timeout)))

\* the worst phase: the watchdog ran just as keep_alive_timeout was reached,
\* and cancels a whole interval later, after a completed exchange
C13_Witness ==
    /\ stage = IDLE /\ task = "running" /\ cancel_pending /\ watchdog = 0
    /\ requests_count > 0 /\ pc = "wait_next" /\ idle_from <= time
    /\ now - time = 2 * keep_alive_timeout + WatchdogInterval

\* ------------------------------------------------------- the Expect header
\* C14: a request whose Expect header is not 100-continue never reaches the
\* handler, with or without content-length or transfer-encoding: it is
\* rejected with HeaderExpectationFailed (a 417 response, then the close)
C14_ExpectRejected ==
    request.expect = "other" =>
        /\ pc # "handler"
        /\ pc \in {"loop_end", "exit", "done"} =>
               err_used = "HeaderExpectationFailed" /\ ~keep_alive

\* ------------------------------------------------------ the receive buffer
\* C15: when an exchange has ended with stage IDLE and keep_alive true, no
\* byte of the completed request is left: the buffer and what the peer has
\* yet to send make up exactly the second request, if there is one, whether
\* the first request had no body, a content-length body or a chunked body
C15_NoLeftover ==
    (pc = "loop_end" /\ stage = IDLE /\ keep_alive /\ requests_count = 1) =>
        recv_buffer \o inbound \in {<<>>, GetRequest}

\* C16: the body of a well-formed chunked request comes out of read() as it
\* went in, however the bytes are split over the fills of the buffer: no
\* read() fails, the data returned so far is a prefix of the chunk data, and
\* read() returns None, with request_chunked cleared, when the zero-size
\* chunk has been taken from the buffer
C16_ChunkedRoundTrip ==
    /\ [](first = ChunkedRequest /\ requests_count = 1 => delivered \in {<<>>, <<"x">>})
    /\ [][(first = ChunkedRequest /\ requests_count = 1 /\ pc = "read_body"
             /\ pc' \notin {"read_body", "read_wait"}) =>
               /\ exc' = "None"
               /\ ~request_chunked' => delivered' = <<"x">>
       ]_vars

\* C17: a read() that meets a chunk-size line longer than 64 bytes ends with
\* InvalidUsage and keep_alive false, whether the line is complete in the
\* buffer or arrives over several fills
C17_LongChunkLine ==
    [][(first = LongLineRequest /\ requests_count = 1 /\ pc = "read_body"
         /\ request_chunked /\ request_bytes_left = 0 /\ pc' # "read_wait") =>
           exc' = "InvalidUsage" /\ ~keep_alive'
      ]_vars

\* C18: request_bytes_left is never negative, whatever content-length the
\* peer sends and however the handler reads, and once the headers of a
\* request with a content-length body are parsed it is 0 exactly when the
\* whole body has been returned by read()
C18_BytesLeft ==
    /\ request_bytes_left >= 0
    /\ (first = PostLength(<<"1">>, <<"x">>) /\ requests_count = 1 /\ stage # REQUEST) =>
           (request_bytes_left = 0 <=> delivered = <<"x">>)

\* C19: _total_request_size counts the bytes of the current request, header
\* and body: it never exceeds request_max_size, and when the response to a
\* request is complete it is the length of that request on the wire
C19_TotalRequestSize ==
    /\ total_request_size <= request_max_size
    /\ (pc = "loop_end" /\ stage = IDLE /\ requests_count = 1
          /\ first \in {GetRequest, PostLength(<<"1">>, <<"x">>), ChunkedRequest}) =>
           total_request_size = Len(first)

\* C20: while the headers of a request are awaited and parsed in stage
\* REQUEST, the receive buffer is never longer than request_max_size,
\* whatever the sizes of the blocks that data_received appends
C20_BufferBounded ==
    (stage = REQUEST /\ pc \in {"request_header", "recv_header"}) =>
        Len(recv_buffer) <= request_max_size

C22_BodyElided ==
    hdr # NoHead /\ hdr.res.status \in {304, 412} =>
        hdr.cl = NoCL /\ BodyOf(wire) = <<>>

\* C22: the content-length that a 304 or 412 response object declares never
\* frames the response (no fixed-length framer, no declared length in the
\* head); a 304 head carries neither content-length nor transfer-encoding and
\* no body byte follows it; a 412 head with a content-length carries the
\* length of the body that follows it (of the body that is left out, for a
\* HEAD request) and no transfer-encoding.
C22_EntityStripped ==
    hdr # NoHead /\ hdr.res.status \in {304, 412} =>
        /\ response_func # "normal"
        /\ hdr.res.status = 304 => hdr.cl = NoCL /\ ~hdr.te /\ BodyOf(wire) = <<>>
        /\ hdr.res.status = 412 /\ hdr.cl # NoCL =>
               /\ ~hdr.te
               /\ Len(BodyOf(wire)) = IF head_only THEN 0 ELSE hdr.cl

\* a 412 response that declared MaxLen bytes was sent with its one-byte body
C22_Witness ==
    /\ hdr # NoHead /\ hdr.res.status = 412 /\ hdr.res.cl = MaxLen /\ hdr.cl = 1
    /\ BodyOf(wire) = Data(1) /\ stage = IDLE

\* the connection waits for a request of which no byte has arrived
WaitingForRequest == pc \in {"recv_header", "wait_next"} /\ ~received

\* C23: wherever close_if_idle can be called on a connection that is not
\* lost, it returns true, and closes, exactly when the engine is absent or the
\* connection waits for a request; a call that closes the transport is one
\* that returns true.
C23_CloseIfIdle ==
    /\ [](Callback /\ ~lost =>
            (close_if_idle_returns <=> (task = "None" \/ WaitingForRequest)))
    /\ [][close_if_idle /\ transport' # transport =>
            close_if_idle_returns /\ (task = "None" \/ WaitingForRequest)]_vars

\* the steps of serve() in their order: the flag is set after the listening
\* server is closed and before close_if_idle, the wait follows close_if_idle
C24_Order ==
    /\ stopped <=> serve \in {"close_if_idle", "while", "sleep", "force", "gather", "closed"}
    /\ serve \in {"run_forever", "wait_closed", "signal", "close_if_idle"} =>
           polls = 0 /\ coros = "none"

\* before the force-close, serve() closes the transport only in
\* close_if_idle, and only where that returns true
C24_NotForced ==
    [][serve' # serve /\ transport' # transport =>
          \/ serve = "close_if_idle" /\ close_if_idle_returns
          \/ serve = "force" /\ (polls >= graceful \/ ~InConnections)]_vars

\* the force-close begins with the set drained or the timeout elapsed, and
\* when serve() is through, a connection still in the set is closed, or the
\* closing handshake of its websocket was awaited
C24_Closed ==
    /\ serve \in {"force", "gather", "closed"} => (polls >= graceful \/ ~InConnections)
    /\ serve = "closed" /\ InConnections => transport = "None" /\ (websocket => coros = "done")

\* C24: serve() shuts the worker down in the order stop accepting, stopped
\* flag, close_if_idle, wait, force-close; a connection in an exchange is not
\* closed by force before the set has drained or the graceful timeout has
\* elapsed; the wait loop sleeps at most GRACEFUL_SHUTDOWN_TIMEOUT / 0.1
\* times; afterwards a connection still in the set is closed or the closing
\* handshake of its websocket was awaited.
C24_GracefulShutdown ==
    /\ [](C24_Order /\ C24_Closed /\ polls <= graceful)
    /\ C24_NotForced

\* C25: when the engine looks for the header block of a request after the
\* first one of the connection, nothing is left of the body of the request
\* before it: request_bytes_left is 0 and request_chunked is false.
C25_BodyConsumed ==
    (pc \in {"request_header", "recv_header"} /\ requests_count >= 1) =>
        (request_bytes_left = 0 /\ ~request_chunked)

\* the driver's send goes past its gate: a send of the handler that has
\* bytes to write while the gate is open, or a send that waited at the gate
SendPastGate ==
    \/ send_resume
    \/ /\ can_write
       /\ \E d \in Datas, e \in BOOLEAN :
             /\ HandlerSend(d, e)
             /\ LET res == send(Http, d, e) IN res.raised = "None" /\ res.out # <<>>

\* bytes are written only with the gate open and a transport that is neither
\* closing nor closed
C26_GateKept ==
    [][Len(wire') > Len(wire) => can_write /\ transport = "set" /\ ~closing]_vars

\* after connection_lost the gate is open or the cancellation is on its way,
\* for a writer that waits at the gate
C26_Released ==
    /\ [](lost /\ pc = "blocked" => can_write \/ cancel_pending)
    /\ [][connection_lost => can_write']_vars

\* C26: the driver's send writes nothing while the gate is cleared; on a
\* transport that is closing or was closed it writes nothing and raises
\* CancelledError; connection_lost opens the gate for a writer that waits.
C26_SendGate ==
    /\ C26_GateKept
    /\ [][(closing \/ transport = "None") /\ SendPastGate =>
             wire' = wire /\ exc' = "CancelledError"]_vars
    /\ C26_Released

\* C27: once the watchdog has cancelled the connection task (it is then not
\* scheduled again), the transport is eventually closed by the server,
\* whatever the peer does.
C27_TimeoutCloses == (watchdog = 0) ~> (transport = "None")

====
